---- MODULE Spec2Model ----
(***************************************************************************)
(* Model of quotecast/utilities.py: the three operations of the quote feed *)
(* session client (get_session_id, fetch_data, subscribe) run against a    *)
(* transport whose answer (an exception, or a status code and a body) is   *)
(* an input of each call.                                                  *)
(*                                                                         *)
(* Text that the code parses or compares character by character (the      *)
(* response body) is a sequence of one-character strings.  Text that the   *)
(* code only builds (the control payload, the url) is a TLA+ string.       *)
(* Python values are records tagged by their type in the field t.          *)
(***************************************************************************)
EXTENDS Integers, Sequences, FiniteSets, TLC

(***************************************************************************)
(* Bounds of the model.                                                    *)
(***************************************************************************)
MaxCalls == 2
MaxLabels == 2

(***************************************************************************)
(* State.  sent: the requests handed to session.send, oldest first.        *)
(* log: the records emitted on the logger, oldest first.  last: the call   *)
(* made last, with its result and the lengths of sent and log before it.   *)
(* lifecycle: the state of each session identifier as its caller can tell  *)
(* from the results of the calls.  product_id, label_list: fields of the   *)
(* Subscription Request the caller has built.                              *)
(***************************************************************************)
VARIABLES sent, log, last, lifecycle, product_id, label_list, calls

vars == <<sent, log, last, lifecycle, product_id, label_list, calls>>

(***************************************************************************)
(* Python values.                                                          *)
(***************************************************************************)
PyNone == [t |-> "NoneType"]
PyFalse == [t |-> "bool", v |-> FALSE]
PyTrue == [t |-> "bool", v |-> TRUE]
PyBool(b) == [t |-> "bool", v |-> b]
PyInt(n) == [t |-> "int", v |-> n]
PyStr(chars) == [t |-> "str", v |-> chars]
PyList(elems) == [t |-> "list", v |-> elems]
PyDict(items) == [t |-> "dict", v |-> items]

Return(value) == [kind |-> "return", value |-> value]
Raise(exc) == [kind |-> "raise", value |-> [t |-> "exception", v |-> exc]]

(***************************************************************************)
(* response.json(): the JSON decoder, on the subset of JSON made of        *)
(* null, true, false, unsigned integers, strings without escapes, arrays   *)
(* and objects, with blanks and newlines as white space.  A parse yields   *)
(* [ok, val, pos]: pos is the index of the first character not consumed.   *)
(***************************************************************************)
DigitChars == <<"0", "1", "2", "3", "4", "5", "6", "7", "8", "9">>

IsDigit(c) == \E d \in 1..10 : DigitChars[d] = c

DigitValue(c) == (CHOOSE d \in 1..10 : DigitChars[d] = c) - 1

IsWhitespace(c) == c \in {" ", "\n"}

JSONDecodeError == [ok |-> FALSE, val |-> PyNone, pos |-> 0]

Parsed(val, pos) == [ok |-> TRUE, val |-> val, pos |-> pos]

RECURSIVE SkipWhitespace(_, _)
SkipWhitespace(s, i) ==
    IF i <= Len(s) /\ IsWhitespace(s[i]) THEN SkipWhitespace(s, i + 1) ELSE i

ParseLiteral(s, i, lit, val) ==
    IF i + Len(lit) - 1 <= Len(s) /\ SubSeq(s, i, i + Len(lit) - 1) = lit
    THEN Parsed(val, i + Len(lit))
    ELSE JSONDecodeError

RECURSIVE ScanDigits(_, _, _)
ScanDigits(s, i, acc) ==
    IF i <= Len(s) /\ IsDigit(s[i])
    THEN ScanDigits(s, i + 1, 10 * acc + DigitValue(s[i]))
    ELSE Parsed(PyInt(acc), i)

ParseNumber(s, i) ==
    IF s[i] = "0" THEN Parsed(PyInt(0), i + 1) ELSE ScanDigits(s, i, 0)

RECURSIVE ScanString(_, _, _)
ScanString(s, i, acc) ==
    IF i > Len(s) \/ s[i] = "\n" THEN JSONDecodeError
    ELSE IF s[i] = "\"" THEN Parsed(PyStr(acc), i + 1)
    ELSE ScanString(s, i + 1, Append(acc, s[i]))

ParseString(s, i) ==
    IF i <= Len(s) /\ s[i] = "\"" THEN ScanString(s, i + 1, <<>>)
    ELSE JSONDecodeError

RECURSIVE ParseValue(_, _)
RECURSIVE ParseElements(_, _, _)
RECURSIVE ParseMembers(_, _, _)

ParseElements(s, i, acc) ==
    LET e == ParseValue(s, i)
        j == SkipWhitespace(s, e.pos)
    IN  IF ~e.ok \/ j > Len(s) THEN JSONDecodeError
        ELSE IF s[j] = "]" THEN Parsed(PyList(Append(acc, e.val)), j + 1)
        ELSE IF s[j] = ","
             THEN ParseElements(s, SkipWhitespace(s, j + 1), Append(acc, e.val))
        ELSE JSONDecodeError

ParseArray(s, i) ==
    LET j == SkipWhitespace(s, i + 1)
    IN  IF j <= Len(s) /\ s[j] = "]" THEN Parsed(PyList(<<>>), j + 1)
        ELSE ParseElements(s, j, <<>>)

ParseMembers(s, i, acc) ==
    LET k == ParseString(s, i)
        c == SkipWhitespace(s, k.pos)
    IN  IF ~k.ok \/ c > Len(s) \/ s[c] # ":" THEN JSONDecodeError
        ELSE LET e == ParseValue(s, SkipWhitespace(s, c + 1))
                 j == SkipWhitespace(s, e.pos)
                 items == Append(acc, <<k.val.v, e.val>>)
             IN  IF ~e.ok \/ j > Len(s) THEN JSONDecodeError
                 ELSE IF s[j] = "}" THEN Parsed(PyDict(items), j + 1)
                 ELSE IF s[j] = ","
                      THEN ParseMembers(s, SkipWhitespace(s, j + 1), items)
                 ELSE JSONDecodeError

ParseObject(s, i) ==
    LET j == SkipWhitespace(s, i + 1)
    IN  IF j <= Len(s) /\ s[j] = "}" THEN Parsed(PyDict(<<>>), j + 1)
        ELSE ParseMembers(s, j, <<>>)

ParseValue(s, i) ==
    IF i > Len(s) THEN JSONDecodeError
    ELSE IF s[i] = "{" THEN ParseObject(s, i)
    ELSE IF s[i] = "[" THEN ParseArray(s, i)
    ELSE IF s[i] = "\"" THEN ParseString(s, i)
    ELSE IF s[i] = "n" THEN ParseLiteral(s, i, <<"n", "u", "l", "l">>, PyNone)
    ELSE IF s[i] = "t" THEN ParseLiteral(s, i, <<"t", "r", "u", "e">>, PyTrue)
    ELSE IF s[i] = "f"
         THEN ParseLiteral(s, i, <<"f", "a", "l", "s", "e">>, PyFalse)
    ELSE IF IsDigit(s[i]) THEN ParseNumber(s, i)
    ELSE JSONDecodeError

json_loads(s) ==
    LET r == ParseValue(s, SkipWhitespace(s, 1))
    IN  IF r.ok /\ SkipWhitespace(s, r.pos) = Len(s) + 1 THEN r
        ELSE JSONDecodeError

(***************************************************************************)
(* The operators `in' and [] of Python on a parsed value.                  *)
(***************************************************************************)
IsSubstring(key, chars) ==
    \E i \in 1..(Len(chars) - Len(key) + 1) :
        SubSeq(chars, i, i + Len(key) - 1) = key

\* key in val: [ok |-> FALSE] stands for the TypeError of a non-container.
PyContains(key, val) ==
    IF val.t = "dict"
    THEN [ok |-> TRUE, found |-> \E i \in 1..Len(val.v) : val.v[i][1] = key]
    ELSE IF val.t = "list"
    THEN [ok |-> TRUE,
          found |-> \E i \in 1..Len(val.v) :
                        val.v[i].t = "str" /\ val.v[i].v = key]
    ELSE IF val.t = "str"
    THEN [ok |-> TRUE, found |-> key = <<>> \/ IsSubstring(key, val.v)]
    ELSE [ok |-> FALSE, found |-> FALSE]

\* val[key] for a key that `in' has found: a dict gives the value of the
\* last item with that key, a list or a str raises TypeError.
PyGetItem(val, key) ==
    IF val.t = "dict"
    THEN LET item == CHOOSE i \in 1..Len(val.v) :
                         /\ val.v[i][1] = key
                         /\ \A j \in (i + 1)..Len(val.v) : val.v[j][1] # key
         IN  Return(val.v[item][2])
    ELSE Raise("TypeError")

(***************************************************************************)
(* Text helpers: str(int) of an f-string, ';'.join, and the TLA+ string    *)
(* of a sequence of characters.                                            *)
(***************************************************************************)
RECURSIVE str_int(_)
str_int(n) ==
    IF n < 10 THEN DigitChars[n + 1]
    ELSE str_int(n \div 10) \o DigitChars[(n % 10) + 1]

RECURSIVE join(_, _)
join(sep, parts) ==
    IF parts = <<>> THEN ""
    ELSE IF Len(parts) = 1 THEN parts[1]
    ELSE parts[1] \o sep \o join(sep, Tail(parts))

RECURSIVE StrOf(_)
StrOf(chars) == IF chars = <<>> THEN "" ELSE Head(chars) \o StrOf(Tail(chars))

(***************************************************************************)
(* Collaborators: the endpoint constants, the Action enumeration, the      *)
(* logger and the transport.                                               *)
(***************************************************************************)
Endpoint_URL == "Endpoint.URL"
Endpoint_VERSION == "Endpoint.VERSION"

Action_SUBSCRIBE == "SUBSCRIBE"
Action_UNSUBSCRIBE == "UNSUBSCRIBE"

Record(level, msg) == [level |-> level, msg |-> msg]

\* What session.send does: it raises, or it gives a response.
SendRaises == [raises |-> TRUE, status_code |-> 0, text |-> <<>>]
Response(status_code, text) ==
    [raises |-> FALSE, status_code |-> status_code, text |-> text]

\* The body that tells the session is reset.
SessionReset ==
    <<"[", "{", "\"", "m", "\"", ":", "\"", "s", "r", "\"", "}", "]">>

SessionIdKey == <<"s", "e", "s", "s", "i", "o", "n", "I", "d">>

(***************************************************************************)
(* The three operations.  Each gives the effect of one call: the result    *)
(* (a returned value or a raised exception), the requests handed to        *)
(* session.send in order, and the log records emitted in order.            *)
(***************************************************************************)
Effect(result, requests, records) ==
    [result |-> result, requests |-> requests, records |-> records]

\* get_session_id with response.json() outside the try.
get_session_id_parse_outside_try(user_token, net) ==
    LET request == [method |-> "POST",
                    url |-> Endpoint_URL \o "/request_session",
                    params |-> <<Endpoint_VERSION, user_token>>,
                    data |-> "{\"referrer\":\"https://trader.degiro.nl\"}"]
        response_dict == json_loads(net.text)
        info == Record("INFO", "get_session_id:response_dict: %s")
    IN  IF net.raises
        THEN Effect(Return(PyFalse), <<request>>,
                    <<Record("FATAL", "exception")>>)
        ELSE IF ~response_dict.ok
        THEN Effect(Raise("JSONDecodeError"), <<request>>, <<>>)
        ELSE Effect(Return(PyNone), <<request>>, <<info>>)

\* get_session_id sending a second time when the first send raises.
get_session_id_retry(user_token, net) ==
    LET request == [method |-> "POST",
                    url |-> Endpoint_URL \o "/request_session",
                    params |-> <<Endpoint_VERSION, user_token>>,
                    data |-> "{\"referrer\":\"https://trader.degiro.nl\"}"]
    IN  IF net.raises
        THEN Effect(Return(PyFalse), <<request, request>>,
                    <<Record("FATAL", "exception"),
                      Record("FATAL", "exception")>>)
        ELSE Effect(Return(PyNone), <<request>>,
                    <<Record("INFO", "get_session_id:response_dict: %s")>>)

get_session_id(user_token, net) ==
    LET request == [method |-> "POST",
                    url |-> Endpoint_URL \o "/request_session",
                    params |-> <<Endpoint_VERSION, user_token>>,
                    data |-> "{\"referrer\":\"https://trader.degiro.nl\"}"]
        response_dict == json_loads(net.text)
        info == Record("INFO", "get_session_id:response_dict: %s")
    IN  IF net.raises \/ ~response_dict.ok
        THEN Effect(Return(PyFalse), <<request>>,
                    <<Record("FATAL", "exception")>>)
        ELSE LET has == PyContains(SessionIdKey, response_dict.val)
             IN  IF ~has.ok
                 THEN Effect(Raise("TypeError"), <<request>>, <<info>>)
                 ELSE IF has.found
                 THEN Effect(PyGetItem(response_dict.val, SessionIdKey),
                             <<request>>, <<info>>)
                 ELSE Effect(Return(PyNone), <<request>>, <<info>>)

RawResponse(response_json) ==
    [t |-> "RawResponse", response_json |-> response_json]

RECURSIVE StripRight(_)
StripRight(chars) ==
    IF chars # <<>> /\ IsWhitespace(chars[Len(chars)])
    THEN StripRight(SubSeq(chars, 1, Len(chars) - 1))
    ELSE chars

Strip(chars) ==
    LET r == StripRight(chars)
    IN  SubSeq(r, SkipWhitespace(r, 1), Len(r))

\* fetch_data comparing response.text.strip() with the reset body.
fetch_data_strip(session_id, net) ==
    LET request == [method |-> "GET",
                    url |-> Endpoint_URL \o "/" \o session_id,
                    params |-> <<>>,
                    data |-> ""]
    IN  IF net.raises
        THEN Effect(Raise("TransportError"), <<request>>, <<>>)
        ELSE IF Strip(net.text) = SessionReset
        THEN Effect(Raise("BrokenPipeError"), <<request>>, <<>>)
        ELSE Effect(Return(RawResponse(net.text)), <<request>>, <<>>)

fetch_data(session_id, net) ==
    LET request == [method |-> "GET",
                    url |-> Endpoint_URL \o "/" \o session_id,
                    params |-> <<>>,
                    data |-> ""]
    IN  IF net.raises
        THEN Effect(Raise("TransportError"), <<request>>, <<>>)
        ELSE IF net.text = SessionReset
        THEN Effect(Raise("BrokenPipeError"), <<request>>, <<>>)
        ELSE Effect(Return(RawResponse(net.text)), <<request>>,
                    <<Record("DEBUG", "fetch_data:raw_response.response_json: %s"),
                      Record("DEBUG", "fetch_data:raw_response.response_datetime: %s"),
                      Record("DEBUG", "fetch_data:raw_response.request_duration: %s")>>)

\* Verb with a final else that unsubscribes.
Verb_default_rel(action) ==
    IF action = Action_SUBSCRIBE THEN "req" ELSE "rel"

Verb(action) ==
    IF action = Action_SUBSCRIBE THEN "req"
    ELSE IF action = Action_UNSUBSCRIBE THEN "rel"
    ELSE "AttributeError"

RECURSIVE Dedupe(_)
Dedupe(labels) ==
    IF labels = <<>> THEN <<>>
    ELSE LET n == Len(labels)
             front == Dedupe(SubSeq(labels, 1, n - 1))
         IN  IF \E i \in 1..(n - 1) : labels[i] = labels[n] THEN front
             ELSE Append(front, labels[n])

\* ControlTokens over the distinct labels only.
ControlTokens_dedupe(verb, pid, labels) ==
    [i \in 1..Len(Dedupe(labels)) |->
        verb \o "(" \o str_int(pid) \o "." \o Dedupe(labels)[i] \o ")"]

ControlTokens(verb, pid, labels) ==
    [i \in 1..Len(labels) |->
        verb \o "(" \o str_int(pid) \o "." \o labels[i] \o ")"]

ControlData(verb, pid, labels) ==
    "{\"controlData\":\""
        \o join(";", ControlTokens(verb, pid, labels))
        \o ";\"}"

\* StatusOk accepting every 2xx status.
StatusOk_2xx(status_code) == status_code \div 100 = 2

StatusOk(status_code) == status_code = 200

\* subscribe remembering what it sent: a request already sent is not sent
\* again.
subscribe_once(subscription_request, session_id, net) ==
    LET action == Verb(subscription_request.action)
        data == ControlData(action, subscription_request.product_id,
                            subscription_request.label_list)
        request == [method |-> "POST",
                    url |-> Endpoint_URL \o "/" \o session_id,
                    params |-> <<>>,
                    data |-> data]
    IN  IF action = "AttributeError"
        THEN Effect(Raise("AttributeError"), <<>>, <<>>)
        ELSE IF \E i \in 1..Len(sent) : sent[i] = request
        THEN Effect(Return(PyTrue), <<>>, <<>>)
        ELSE Effect(Return(PyBool(~net.raises /\ StatusOk(net.status_code))),
                    <<request>>, <<>>)

subscribe(subscription_request, session_id, net) ==
    LET action == Verb(subscription_request.action)
        data == ControlData(action, subscription_request.product_id,
                            subscription_request.label_list)
        request == [method |-> "POST",
                    url |-> Endpoint_URL \o "/" \o session_id,
                    params |-> <<>>,
                    data |-> data]
        payload == Record("INFO", "subscribe:payload: %s")
    IN  IF action = "AttributeError"
        THEN Effect(Raise("AttributeError"), <<>>, <<>>)
        ELSE IF net.raises
        THEN Effect(Return(PyFalse), <<request>>,
                    <<payload, Record("FATAL", "exception")>>)
        ELSE Effect(Return(PyBool(StatusOk(net.status_code))), <<request>>,
                    <<payload,
                      Record("DEBUG", "subscribe:response.text: %s"),
                      Record("DEBUG", "subscribe:response.status_code: %s")>>)

(***************************************************************************)
(* Inputs of the calls.                                                    *)
(***************************************************************************)
Quoted(chars) == <<"\"">> \o chars \o <<"\"">>

SessionIdX == <<"{">> \o Quoted(SessionIdKey) \o <<":">> \o Quoted(<<"X">>) \o <<"}">>

\* Bodies the session endpoint may answer with.
SessionBodies ==
    { SessionIdX,
      <<" ", "{">> \o Quoted(SessionIdKey) \o <<":", " ">> \o Quoted(<<"Y">>)
          \o <<"}", "\n">>,
      <<"{">> \o Quoted(<<"a">>) \o <<":", "1", ",">> \o Quoted(SessionIdKey)
          \o <<":">> \o Quoted(<<"X">>) \o <<",">> \o Quoted(SessionIdKey)
          \o <<":">> \o Quoted(<<"Y">>) \o <<"}">>,
      <<"{">> \o Quoted(SessionIdKey) \o <<":", "n", "u", "l", "l", "}">>,
      <<"{">> \o Quoted(SessionIdKey) \o <<":", "f", "a", "l", "s", "e", "}">>,
      <<"{">> \o Quoted(<<"a">>) \o <<":">> \o Quoted(<<"b">>) \o <<"}">>,
      <<"{", "}">>,
      <<"{">> \o Quoted(SessionIdKey),
      <<>>,
      <<"[", "]">>,
      <<"[">> \o Quoted(SessionIdKey) \o <<"]">>,
      Quoted(<<"a">> \o SessionIdKey),
      <<"n", "u", "l", "l">>,
      <<"5">>,
      SessionReset }

\* Bodies the polling endpoint may answer with.
PollBodies ==
    { SessionReset,
      SessionReset \o <<"\n">>,
      <<" ">> \o SessionReset,
      <<"[", "{", "\"", "m", "\"", ":", " ", "\"", "s", "r", "\"", "}", "]">>,
      <<"[", "{", "\"", "m", "\"", ":", "\"", "u", "\"", "}", "]">>,
      <<"[", "{">>,
      <<>> }

StatusCodes == {200, 201, 204, 404, 500}

UserTokens == {12345}
SessionIds == {"X", "Y"}
ProductIds == {360148977, 7}
Labels == {"A", "B"}
Actions == {Action_SUBSCRIBE, Action_UNSUBSCRIBE, "OTHER"}

LabelLists == UNION {[1..n -> Labels] : n \in 0..MaxLabels}

SessionNets == {SendRaises} \cup {Response(200, b) : b \in SessionBodies}
PollNets == {SendRaises} \cup {Response(200, b) : b \in PollBodies}
ControlNets == {SendRaises} \cup {Response(c, <<>>) : c \in StatusCodes}

SubscriptionRequest(action) ==
    [action |-> action, product_id |-> product_id, label_list |-> label_list]

Call(op, args, net, effect) ==
    [op |-> op, args |-> args, net |-> net, result |-> effect.result,
     nsent |-> Len(sent), nlog |-> Len(log)]

Apply(op, args, net, effect) ==
    /\ calls < MaxCalls
    /\ calls' = calls + 1
    /\ sent' = sent \o effect.requests
    /\ log' = log \o effect.records
    /\ last' = Call(op, args, net, effect)
    /\ UNCHANGED <<product_id, label_list>>

Init ==
    /\ sent = <<>>
    /\ log = <<>>
    /\ last = [op |-> "none", args |-> <<>>, net |-> SendRaises,
               result |-> Return(PyNone), nsent |-> 0, nlog |-> 0]
    /\ lifecycle = [s \in SessionIds |-> "NO_SESSION"]
    /\ product_id \in ProductIds
    /\ label_list \in LabelLists
    /\ calls = 0

\* An identifier returned by the acquisition becomes ACTIVE.
Acquired(result) ==
    IF result.kind = "return" /\ result.value.t = "str"
       /\ StrOf(result.value.v) \in SessionIds
    THEN [lifecycle EXCEPT ![StrOf(result.value.v)] = "ACTIVE"]
    ELSE lifecycle

\* An identifier becomes EXPIRED when a call on it raises BrokenPipeError.
Expired(session_id, result) ==
    IF result = Raise("BrokenPipeError")
    THEN [lifecycle EXCEPT ![session_id] = "EXPIRED"]
    ELSE lifecycle

GetSessionId(user_token, net) ==
    LET effect == get_session_id(user_token, net)
    IN  /\ Apply("get_session_id", <<user_token>>, net, effect)
        /\ lifecycle' = Acquired(effect.result)

FetchData(session_id, net) ==
    LET effect == fetch_data(session_id, net)
    IN  /\ Apply("fetch_data", <<session_id>>, net, effect)
        /\ lifecycle' = Expired(session_id, effect.result)

Subscribe(action, session_id, net) ==
    LET effect == subscribe(SubscriptionRequest(action), session_id, net)
    IN  /\ Apply("subscribe", <<SubscriptionRequest(action), session_id>>,
                 net, effect)
        /\ lifecycle' = Expired(session_id, effect.result)

Next ==
    \/ \E user_token \in UserTokens, net \in SessionNets :
           GetSessionId(user_token, net)
    \/ \E session_id \in SessionIds, net \in PollNets :
           FetchData(session_id, net)
    \/ \E action \in Actions, session_id \in SessionIds, net \in ControlNets :
           Subscribe(action, session_id, net)

Spec == Init /\ [][Next]_vars

(***************************************************************************)
(* Properties.  They speak of the call made last: the requests it handed   *)
(* to the transport and the records it logged.                             *)
(***************************************************************************)
LastRequests == SubSeq(sent, last.nsent + 1, Len(sent))

LastRecords == SubSeq(log, last.nlog + 1, Len(log))

LoggedFatal == \E i \in 1..Len(LastRecords) : LastRecords[i].level = "FATAL"

ValidAction(action) == action \in {Action_SUBSCRIBE, Action_UNSUBSCRIBE}

SubscribedValid == last.op = "subscribe" /\ ValidAction(last.args[1].action)

\* C1: when the poll gets a response, fetch_data raises BrokenPipeError
\* exactly when the body is, character for character, the reset body; for
\* any other body it returns a RawResponse whose response_json is that body.
C1_SentinelOnly ==
    (last.op = "fetch_data" /\ ~last.net.raises) =>
        IF last.net.text = SessionReset
        THEN last.result = [kind |-> "raise",
                            value |-> [t |-> "exception",
                                       v |-> "BrokenPipeError"]]
        ELSE last.result = [kind |-> "return",
                            value |-> [t |-> "RawResponse",
                                       response_json |-> last.net.text]]

\* The reset body followed by a newline was polled and came back as data.
C1_Witness ==
    /\ last.op = "fetch_data"
    /\ last.net.text = SessionReset \o <<"\n">>
    /\ last.result.kind = "return"
    /\ last.result.value.response_json = SessionReset \o <<"\n">>

\* C2: when the send raises, get_session_id and subscribe log a FATAL record
\* and return False; get_session_id does the same when the body of the
\* response does not parse.
C2_FailureMarker ==
    LET sendFailed == LastRequests # <<>> /\ last.net.raises
        parseFailed == ~last.net.raises /\ ~json_loads(last.net.text).ok
    IN  (\/ last.op = "subscribe" /\ sendFailed
         \/ last.op = "get_session_id" /\ (sendFailed \/ parseFailed))
        => /\ last.result = [kind |-> "return",
                             value |-> [t |-> "bool", v |-> FALSE]]
           /\ LoggedFatal

\* get_session_id got a body that does not parse and returned False.
C2_Witness ==
    /\ last.op = "get_session_id"
    /\ ~last.net.raises
    /\ ~json_loads(last.net.text).ok
    /\ last.result.kind = "return"
    /\ last.result.value.t = "bool"
    /\ LoggedFatal

\* C3: fetch_data never lets an exception of the send reach its caller: it
\* logs a FATAL record and returns a failure value.
C3_Original ==
    (last.op = "fetch_data" /\ last.net.raises) =>
        /\ last.result.kind = "return"
        /\ LoggedFatal

\* C4: when the send succeeds and the body parses, get_session_id returns
\* the value under the key sessionId when the parsed response has that key,
\* and None otherwise.
C4_Original ==
    LET parsed == json_loads(last.net.text)
        hasKey == /\ parsed.val.t = "dict"
                  /\ \E i \in 1..Len(parsed.val.v) :
                         parsed.val.v[i][1] = SessionIdKey
    IN  (last.op = "get_session_id" /\ ~last.net.raises /\ parsed.ok) =>
            /\ last.result.kind = "return"
            /\ hasKey => last.result = PyGetItem(parsed.val, SessionIdKey)
            /\ ~hasKey => last.result.value.t = "NoneType"

RECURSIVE TokensEach(_, _, _)
TokensEach(verb, pid, labels) ==
    IF labels = <<>> THEN ""
    ELSE verb \o "(" \o ToString(pid) \o "." \o Head(labels) \o ");"
             \o TokensEach(verb, pid, Tail(labels))

ExpectedVerb(action) == IF action = Action_SUBSCRIBE THEN "req" ELSE "rel"

\* C5: the body subscribe sends for SUBSCRIBE or UNSUBSCRIBE is
\* {"controlData":"..."} whose control string is one token
\* verb(product_id.label) per element of label_list, in the order of
\* label_list, each token followed by one ';'.
C5_Original ==
    SubscribedValid =>
        /\ LastRequests # <<>>
        /\ LastRequests[1].data =
               "{\"controlData\":\""
                   \o TokensEach(ExpectedVerb(last.args[1].action),
                                 last.args[1].product_id,
                                 last.args[1].label_list)
                   \o "\"}"

\* C5 as amended: the same, and for an empty label_list the control string
\* is the single ';'.
C5_JoinedAndTerminated ==
    SubscribedValid =>
        /\ LastRequests # <<>>
        /\ LastRequests[1].data =
               "{\"controlData\":\""
                   \o (IF last.args[1].label_list = <<>> THEN ";"
                       ELSE TokensEach(ExpectedVerb(last.args[1].action),
                                       last.args[1].product_id,
                                       last.args[1].label_list))
                   \o "\"}"
        /\ (/\ last.args[1].action = Action_SUBSCRIBE
            /\ last.args[1].product_id = 360148977
            /\ last.args[1].label_list = <<"B", "A">>)
           => LastRequests[1].data =
                  "{\"controlData\":\"req(360148977.B);req(360148977.A);\"}"

\* An UNSUBSCRIBE of the same label twice was sent.
C5_Witness ==
    /\ SubscribedValid
    /\ last.args[1].action = Action_UNSUBSCRIBE
    /\ last.args[1].label_list = <<"A", "A">>
    /\ LastRequests # <<>>

\* C6: for a valid action and a send that completes, subscribe returns True
\* exactly when the status code is 200, False otherwise, and logs no FATAL
\* record.
C6_Status200 ==
    (SubscribedValid /\ ~last.net.raises) =>
        /\ last.result = [kind |-> "return",
                          value |-> [t |-> "bool",
                                     v |-> (last.net.status_code = 200)]]
        /\ ~LoggedFatal

\* subscribe got status 201 and returned False.
C6_Witness ==
    /\ SubscribedValid
    /\ ~last.net.raises
    /\ last.net.status_code = 201
    /\ ~last.result.value.v

\* C7: subscribe with an action other than SUBSCRIBE and UNSUBSCRIBE raises
\* before it builds a payload or sends a request, and returns no boolean.
C7_FailFast ==
    (last.op = "subscribe" /\ ~ValidAction(last.args[1].action)) =>
        /\ last.result.kind = "raise"
        /\ last.result.value.v = "AttributeError"
        /\ LastRequests = <<>>
        /\ LastRecords = <<>>

\* subscribe was called with another action after an earlier call had sent.
C7_Witness ==
    /\ last.op = "subscribe"
    /\ last.args[1].action = "OTHER"
    /\ last.nsent > 0
    /\ last.result.kind = "raise"

\* C8: every call that ends in a failure (the False of a failed transport,
\* BrokenPipeError, AttributeError) has logged a record before it ends.
C8_Original ==
    LET transportFailed ==
            /\ last.op \in {"get_session_id", "subscribe"}
            /\ LastRequests # <<>>
            /\ last.net.raises
        raised ==
            /\ last.result.kind = "raise"
            /\ last.result.value.v \in {"BrokenPipeError", "AttributeError"}
    IN  (transportFailed \/ raised) => LastRecords # <<>>

\* C9: every call hands exactly one request to the transport.
C9_Original ==
    last.op # "none" => Len(LastRequests) = 1

\* C9 as amended: every call hands exactly one request to the transport,
\* except subscribe with an action other than SUBSCRIBE and UNSUBSCRIBE,
\* which hands none.
C9_AtMostOneSend ==
    last.op # "none" =>
        Len(LastRequests) =
            IF last.op = "subscribe" /\ ~ValidAction(last.args[1].action)
            THEN 0 ELSE 1

\* get_session_id met a send that raised and sent once.
C9_Witness ==
    /\ last.op = "get_session_id"
    /\ last.net.raises
    /\ Len(LastRequests) = 1

C10_State ==
    SubscribedValid =>
        /\ Len(LastRequests) = 1
        /\ LastRequests[1] =
               [method |-> "POST",
                url |-> Endpoint_URL \o "/" \o last.args[2],
                params |-> <<>>,
                data |-> ControlData(ExpectedVerb(last.args[1].action),
                                     last.args[1].product_id,
                                     last.args[1].label_list)]

C10_Step ==
    (calls' = calls + 1 /\ last'.op = "subscribe") => lifecycle' = lifecycle

\* C10: whatever was called before, subscribe with a valid action sends one
\* request, whose payload depends on the Subscription Request alone, and no
\* call of subscribe changes the lifecycle of a session identifier.
C10_Stateless == []C10_State /\ [][C10_Step]_vars

\* The same subscribe was made twice and sent two identical requests.
C10_Witness ==
    /\ SubscribedValid
    /\ Len(sent) = 2
    /\ last.nsent = 1
    /\ sent[1] = sent[2]

====
